---- MODULE Spec2Model ----
(***************************************************************************)
(* State-machine model of the STK-push lifecycle and callback              *)
(* reconciliation in index.js (stkPush, darajaCallback and their helpers). *)
(*                                                                         *)
(* Every await of a handler that touches the document store or the         *)
(* gateway's push endpoint is a separate step, so that concurrent          *)
(* invocations interleave exactly where the Node.js event loop lets them.  *)
(* The code before the first store write of stkPush (validation, config    *)
(* resolution, token acquisition) touches no shared mutable state and is   *)
(* one step.                                                               *)
(***************************************************************************)
EXTENDS Integers, Sequences, FiniteSets, TLC

\* ------------------------------------------------------------------ bounds
MaxStk == 2        \* stkPush invocations in one behaviour
MaxCb  == 2        \* darajaCallback invocations in one behaviour

StkIds == 1..MaxStk
CbIds  == 1..MaxCb

\* ------------------------------------------------------- JavaScript values
\* A JS value of the kinds the handlers meet: undefined, null, a number or a
\* string.  All three fields are always present so that values compare.
JsUndefined == [t |-> "undefined", n |-> 0, s |-> ""]
JsNull      == [t |-> "null",      n |-> 0, s |-> ""]
JsNum(k)    == [t |-> "number",    n |-> k, s |-> ""]
JsStr(x)    == [t |-> "string",    n |-> 0, s |-> x]

\* ToBoolean: undefined, null, 0 and '' are falsy.
Truthy(v) ==
    \/ v.t = "number" /\ v.n # 0
    \/ v.t = "string" /\ v.s # ""

\* a || b
JsOr(a, b) == IF Truthy(a) THEN a ELSE b

\* a === b on these kinds
StrictEq(a, b) == a = b

\* --------------------------------------------------------- character data
\* Text that the code inspects character by character (phone, amount) is a
\* sequence of one-character strings.
Digits == {"0", "1", "2", "3", "4", "5", "6", "7", "8", "9"}
Blank  == {" "}

DigitVal(c) ==
    CASE c = "0" -> 0 [] c = "1" -> 1 [] c = "2" -> 2 [] c = "3" -> 3
      [] c = "4" -> 4 [] c = "5" -> 5 [] c = "6" -> 6 [] c = "7" -> 7
      [] c = "8" -> 8 [] c = "9" -> 9

RECURSIVE TrimLeft(_)
TrimLeft(s) ==
    IF s # <<>> /\ Head(s) \in Blank THEN TrimLeft(Tail(s)) ELSE s

RECURSIVE TrimRight(_)
TrimRight(s) ==
    IF s # <<>> /\ s[Len(s)] \in Blank
    THEN TrimRight(SubSeq(s, 1, Len(s) - 1))
    ELSE s

\* String.prototype.trim
Trim(s) == TrimRight(TrimLeft(s))

IsDigit(c) == c \in Digits

AllDigits(s) == \A k \in 1..Len(s) : s[k] \in Digits

\* MatchLocal with any digit after the 0: /^0\d{9}$/
MatchLocalAnyPrefix(s) == Len(s) = 10 /\ AllDigits(s) /\ s[1] = "0"

\* /^0[7]\d{8}$/, /^[7]\d{8}$/, /^254[7]\d{8}$/
MatchLocal(s) == Len(s) = 10 /\ AllDigits(s) /\ s[1] = "0" /\ s[2] = "7"
MatchBare(s)  == Len(s) = 9 /\ AllDigits(s) /\ s[1] = "7"
MatchIntl(s)  ==
    Len(s) = 12 /\ AllDigits(s) /\ SubSeq(s, 1, 3) = <<"2", "5", "4">> /\ s[4] = "7"

Thrown(msg) == [ok |-> FALSE, v |-> <<>>, err |-> msg]
Returned(v) == [ok |-> TRUE, v |-> v, err |-> ""]

normalizePhoneForDaraja(raw) ==
    LET s0 == Trim(raw)
        s1 == IF s0 # <<>> /\ Head(s0) = "+" THEN Tail(s0) ELSE s0
        s  == SelectSeq(s1, IsDigit)
    IN  IF s0 = <<>> THEN Thrown("Phone is empty")
        ELSE IF MatchLocal(s) THEN Returned(<<"2", "5", "4">> \o Tail(s))
        ELSE IF MatchBare(s) THEN Returned(<<"2", "5", "4">> \o s)
        ELSE IF MatchIntl(s) THEN Returned(s)
        ELSE Thrown("Unsupported phone format")

\* parseInt(text, 10): leading blanks, an optional sign, then the longest
\* run of digits; NaN when there is no digit.
RECURSIVE DigitPrefix(_)
DigitPrefix(s) ==
    IF s # <<>> /\ Head(s) \in Digits THEN <<Head(s)>> \o DigitPrefix(Tail(s)) ELSE <<>>

RECURSIVE DecimalValue(_)
DecimalValue(d) ==
    IF d = <<>> THEN 0
    ELSE 10 * DecimalValue(SubSeq(d, 1, Len(d) - 1)) + DigitVal(d[Len(d)])

parseInt(text) ==
    LET s0   == TrimLeft(text)
        neg  == s0 # <<>> /\ Head(s0) = "-"
        s1   == IF s0 # <<>> /\ Head(s0) \in {"-", "+"} THEN Tail(s0) ELSE s0
        d    == DigitPrefix(s1)
    IN  IF d = <<>> THEN [nan |-> TRUE, n |-> 0]
        ELSE [nan |-> FALSE, n |-> IF neg THEN 0 - DecimalValue(d) ELSE DecimalValue(d)]

\* !amount : NaN and 0 are falsy
AmountFalsy(a) == a.nan \/ a.n = 0

\* ----------------------------------------------------- credential bundle
ProdHost    == "api.safaricom.co.ke"
SandboxHost == "sandbox.safaricom.co.ke"

\* A URL is the sequence of its parts (scheme, host, path); the code's
\* substring tests and replacements are about the host part.
Includes(url, part) == \E k \in 1..Len(url) : url[k] = part

\* String.prototype.replace(a, b) with a string pattern: first occurrence only.
ReplaceFirst(url, a, b) ==
    IF ~Includes(url, a) THEN url
    ELSE LET k == CHOOSE k \in 1..Len(url) :
                      url[k] = a /\ \A m \in 1..(k - 1) : url[m] # a
         IN  [url EXCEPT ![k] = b]

NoBundle ==
    [consumerKey |-> "", consumerSecret |-> "", passkey |-> "", paybill |-> "",
     oauthurl |-> <<>>, stkurl |-> "", callbackurl |-> ""]

\* the seven-way && of lines 53 and 69
Complete(d) ==
    /\ d.consumerKey # ""
    /\ d.consumerSecret # ""
    /\ d.passkey # ""
    /\ d.paybill # ""
    /\ d.oauthurl # <<>>
    /\ d.stkurl # ""
    /\ d.callbackurl # ""

Bundle(d) ==
    [consumerKey |-> d.consumerKey, consumerSecret |-> d.consumerSecret,
     passkey |-> d.passkey, paybill |-> d.paybill, oauthurl |-> d.oauthurl,
     stkurl |-> d.stkurl, callbackurl |-> d.callbackurl]

\* null, or the bundle read from app_config/daraja
loadDarajaConfigFromFirestore(doc) ==
    IF ~doc.exists THEN [found |-> FALSE, cfg |-> NoBundle]
    ELSE IF ~Complete(doc.data) THEN [found |-> FALSE, cfg |-> NoBundle]
    ELSE [found |-> TRUE, cfg |-> Bundle(doc.data)]

\* getDarajaConfig filling each value the environment lacks from the document
getDarajaConfigMerged(environ, doc, readOk) ==
    LET pick(a, b, none) == IF a # none THEN a ELSE b
        m == [consumerKey    |-> pick(environ.consumerKey, doc.data.consumerKey, ""),
              consumerSecret |-> pick(environ.consumerSecret, doc.data.consumerSecret, ""),
              passkey        |-> pick(environ.passkey, doc.data.passkey, ""),
              paybill        |-> pick(environ.paybill, doc.data.paybill, ""),
              oauthurl       |-> pick(environ.oauthurl, doc.data.oauthurl, <<>>),
              stkurl         |-> pick(environ.stkurl, doc.data.stkurl, ""),
              callbackurl    |-> pick(environ.callbackurl, doc.data.callbackurl, "")]
    IN  IF Complete(environ)
        THEN [ok |-> TRUE, cfg |-> Bundle(environ), read |-> FALSE, err |-> ""]
        ELSE IF ~readOk
        THEN [ok |-> FALSE, cfg |-> NoBundle, read |-> TRUE, err |-> "store-error"]
        ELSE IF doc.exists /\ Complete(m)
        THEN [ok |-> TRUE, cfg |-> m, read |-> TRUE, err |-> ""]
        ELSE [ok |-> FALSE, cfg |-> NoBundle, read |-> TRUE,
              err |-> "Daraja config missing"]

\* readOk: whether the store answers the read of the fallback document
getDarajaConfig(environ, doc, readOk) ==
    IF Complete(environ)
    THEN [ok |-> TRUE, cfg |-> Bundle(environ), read |-> FALSE, err |-> ""]
    ELSE IF ~readOk
    THEN [ok |-> FALSE, cfg |-> NoBundle, read |-> TRUE, err |-> "store-error"]
    ELSE LET fsCfg == loadDarajaConfigFromFirestore(doc)
         IN  IF fsCfg.found
             THEN [ok |-> TRUE, cfg |-> fsCfg.cfg, read |-> TRUE, err |-> ""]
             ELSE [ok |-> FALSE, cfg |-> NoBundle, read |-> TRUE,
                   err |-> "Daraja config missing"]

\* ------------------------------------------------------------ OAuth token
\* What one GET of the OAuth URL can end in: the request throws (transport
\* failure, 15 s timeout), or a response of any status with or without an
\* access_token.
TokenOutcomes ==
    { [kind |-> "throw", status |-> 0,   access_token |-> ""],
      [kind |-> "resp",  status |-> 200, access_token |-> "tok"],
      [kind |-> "resp",  status |-> 200, access_token |-> ""],
      [kind |-> "resp",  status |-> 401, access_token |-> ""] }

\* The token answers drawn where invocations interleave with callbacks.
CoreTokens ==
    { [kind |-> "resp",  status |-> 200, access_token |-> "tok"],
      [kind |-> "resp",  status |-> 401, access_token |-> ""] }

Is2xx(status) == status >= 200 /\ status < 300

getDarajaToken(oauthurl, o) ==
    IF o.kind = "throw"
    THEN [ok |-> FALSE, token |-> "", err |-> "network-error"]
    ELSE IF Is2xx(o.status) /\ o.access_token # ""
    THEN [ok |-> TRUE, token |-> o.access_token, err |-> ""]
    ELSE [ok |-> FALSE, token |-> "",
          err |-> "daraja-oauth-error:status " \o ToString(o.status)]

\* AcquireToken retrying on the sandbox host whatever the configured host is
AcquireTokenAnyHost(cfg, o1, o2) ==
    LET r1 == getDarajaToken(cfg.oauthurl, o1)
        c1 == [url |-> cfg.oauthurl, ok |-> r1.ok, err |-> r1.err]
        sandbox == ReplaceFirst(cfg.oauthurl, ProdHost, SandboxHost)
        r2 == getDarajaToken(sandbox, o2)
        c2 == [url |-> sandbox, ok |-> r2.ok, err |-> r2.err]
    IN  IF r1.ok
        THEN [ok |-> TRUE, token |-> r1.token, err |-> "", calls |-> <<c1>>]
        ELSE [ok |-> r2.ok, token |-> r2.token, err |-> r2.err, calls |-> <<c1, c2>>]

\* lines 116-127: the token, the error that leaves the try block, and the
\* token requests made on the way (url, whether it yielded a token, its error)
AcquireToken(cfg, o1, o2) ==
    LET r1 == getDarajaToken(cfg.oauthurl, o1)
        c1 == [url |-> cfg.oauthurl, ok |-> r1.ok, err |-> r1.err]
    IN  IF r1.ok
        THEN [ok |-> TRUE, token |-> r1.token, err |-> "", calls |-> <<c1>>]
        ELSE IF cfg.oauthurl # <<>> /\ Includes(cfg.oauthurl, ProdHost)
        THEN LET sandbox == ReplaceFirst(cfg.oauthurl, ProdHost, SandboxHost)
                 r2 == getDarajaToken(sandbox, o2)
                 c2 == [url |-> sandbox, ok |-> r2.ok, err |-> r2.err]
             IN  [ok |-> r2.ok, token |-> r2.token, err |-> r2.err,
                  calls |-> <<c1, c2>>]
        ELSE [ok |-> FALSE, token |-> "", err |-> r1.err, calls |-> <<c1>>]

\* ------------------------------------------------------------ push payload
\* The clock is not modelled: every reading of it yields the same text.
utcTimestamp == "YYYYMMDDHHMMSS"

\* base64 of paybill + passkey + timestamp, kept as the concatenated parts
makePassword(paybill, passkey, timestamp) == <<"base64", paybill, passkey, timestamp>>

NoStkBody ==
    [BusinessShortCode |-> "", Password |-> <<>>, Timestamp |-> "",
     TransactionType |-> "", Amount |-> 0, PartyA |-> <<>>, PartyB |-> "",
     PhoneNumber |-> <<>>, CallBackURL |-> "", AccountReference |-> <<>>,
     TransactionDesc |-> ""]

StkBody(cfg, body, phone, amount) ==
    LET timestamp == utcTimestamp
    IN  [BusinessShortCode |-> cfg.paybill,
         Password          |-> makePassword(cfg.paybill, cfg.passkey, timestamp),
         Timestamp         |-> timestamp,
         TransactionType   |-> "CustomerPayBillOnline",
         Amount            |-> amount,
         PartyA            |-> phone,
         PartyB            |-> cfg.paybill,
         PhoneNumber       |-> phone,
         CallBackURL       |-> cfg.callbackurl,
         AccountReference  |-> IF body.accountRef # <<>> THEN body.accountRef ELSE phone,
         TransactionDesc   |-> IF body.description # "" THEN body.description ELSE "Payment"]

\* -------------------------------------------------------- gateway answers
\* resp.data of the push call: absent, or an object that may carry the
\* correlation identifier under one of three spellings.
PushData(a, b, c) ==
    [obj |-> TRUE, CheckoutRequestID |-> a, checkoutRequestID |-> b, CheckoutRequestId |-> c]

NoData ==
    [obj |-> FALSE, CheckoutRequestID |-> JsUndefined, checkoutRequestID |-> JsUndefined,
     CheckoutRequestId |-> JsUndefined]

PushStatuses == {199, 200, 299, 300}

PushDatas ==
    { NoData,
      PushData(JsStr("ws_CO_1"), JsUndefined, JsUndefined),
      PushData(JsUndefined, JsUndefined, JsStr("ws_CO_2")) }

NoResp == [kind |-> "none", status |-> 0, data |-> NoData]

\* axios.post with validateStatus always true: any status is a response; only
\* a transport failure or the 20 s timeout throws.
PushOutcomes ==
    { [kind |-> "throw", status |-> 0, data |-> NoData] }
    \cup { [kind |-> "resp", status |-> st, data |-> d] : st \in PushStatuses, d \in PushDatas }

\* The answers drawn where invocations interleave with callbacks: a
\* transport failure, and an accepted and a refused push, each with and
\* without a correlation identifier.
CoreOutcomes ==
    { [kind |-> "throw", status |-> 0, data |-> NoData] }
    \cup { [kind |-> "resp", status |-> st, data |-> d] :
              st \in {200, 500},
              d \in {NoData, PushData(JsStr("ws_CO_1"), JsUndefined, JsUndefined)} }

\* ExtractCheckoutRequestId falling back to a fixed identifier instead of null
ExtractCheckoutRequestIdDefault(resp) ==
    IF resp.data.obj
    THEN JsOr(resp.data.CheckoutRequestID,
              JsOr(resp.data.checkoutRequestID,
                   JsOr(resp.data.CheckoutRequestId, JsStr("unknown"))))
    ELSE JsStr("unknown")

\* lines 164-167
ExtractCheckoutRequestId(resp) ==
    IF resp.data.obj
    THEN JsOr(resp.data.CheckoutRequestID,
              JsOr(resp.data.checkoutRequestID,
                   JsOr(resp.data.CheckoutRequestId, JsNull)))
    ELSE JsNull

\* PostCallStatus with the lower bound exclusive
PostCallStatusExclusive(status) ==
    IF status > 200 /\ status < 300 THEN "pending" ELSE "failed"

\* line 171
PostCallStatus(status) == IF Is2xx(status) THEN "pending" ELSE "failed"

\* ---------------------------------------------------------- stored records
\* PendingDoc without the snapshot of the outbound payload
PendingDocNoSnapshot(body, phone, amount, stkBody) ==
    [uid             |-> IF body.uid # "" THEN JsStr(body.uid) ELSE JsNull,
     msisdn          |-> phone,
     amount          |-> amount,
     checkoutRequestId |-> JsNull,
     status          |-> "initiated",
     requestBody     |-> NoStkBody,
     responseStatus  |-> 0,
     responseBody    |-> NoData,
     updatedAt       |-> FALSE,
     resultCode      |-> JsUndefined,
     resultDesc      |-> JsUndefined,
     callbackAt      |-> FALSE]

\* payments_pending: the document written at lines 148-156.  Fields that a
\* later update adds are present from the start with their absent value.
PendingDoc(body, phone, amount, stkBody) ==
    [uid             |-> IF body.uid # "" THEN JsStr(body.uid) ELSE JsNull,
     msisdn          |-> phone,
     amount          |-> amount,
     checkoutRequestId |-> JsNull,
     status          |-> "initiated",
     requestBody     |-> stkBody,
     responseStatus  |-> 0,
     responseBody    |-> NoData,
     updatedAt       |-> FALSE,
     resultCode      |-> JsUndefined,
     resultDesc      |-> JsUndefined,
     callbackAt      |-> FALSE]

\* PostCallUpdate leaving the status as it was
PostCallUpdateKeepStatus(doc, resp) ==
    [doc EXCEPT !.checkoutRequestId = ExtractCheckoutRequestId(resp),
                !.responseStatus = resp.status,
                !.responseBody = resp.data,
                !.updatedAt = TRUE]

\* pendingRef.update of lines 169-175
PostCallUpdate(doc, resp) ==
    [doc EXCEPT !.checkoutRequestId = ExtractCheckoutRequestId(resp),
                !.status = PostCallStatus(resp.status),
                !.responseStatus = resp.status,
                !.responseBody = resp.data,
                !.updatedAt = TRUE]

\* CallbackStatus taking every falsy result code for success
CallbackStatusFalsy(resultCode) ==
    IF ~Truthy(resultCode) THEN "success" ELSE "failed"

\* line 213
CallbackStatus(resultCode) ==
    IF StrictEq(resultCode, JsNum(0)) THEN "success" ELSE "failed"

\* ReconcileUpdate writing with set instead of update: the fields it does
\* not name are lost
ReconcileUpdateSet(doc, resultCode, resultDesc) ==
    [doc EXCEPT !.status = CallbackStatus(resultCode),
                !.resultCode = resultCode,
                !.resultDesc = resultDesc,
                !.callbackAt = TRUE,
                !.uid = JsNull,
                !.requestBody = NoStkBody,
                !.responseStatus = 0,
                !.responseBody = NoData,
                !.updatedAt = FALSE]

\* pdoc.update of lines 212-217
ReconcileUpdate(doc, resultCode, resultDesc) ==
    [doc EXCEPT !.status = CallbackStatus(resultCode),
                !.resultCode = resultCode,
                !.resultDesc = resultDesc,
                !.callbackAt = TRUE]

\* ------------------------------------------------------- callback payloads
Payload(a, b, c, d, e, f) ==
    [obj |-> TRUE, CheckoutRequestID |-> a, checkoutRequestID |-> b,
     ResultCode |-> c, resultCode |-> d, ResultDesc |-> e, resultDesc |-> f]

NoPayload ==
    [obj |-> FALSE, CheckoutRequestID |-> JsUndefined, checkoutRequestID |-> JsUndefined,
     ResultCode |-> JsUndefined, resultCode |-> JsUndefined,
     ResultDesc |-> JsUndefined, resultDesc |-> JsUndefined]

EmptyPayload ==
    Payload(JsUndefined, JsUndefined, JsUndefined, JsUndefined, JsUndefined, JsUndefined)

\* A request body: its own top-level fields and the three places a nested
\* payload may sit.
CallbackBody(nested, upper, lower, own) ==
    [BodyStkCallback |-> nested, StkCallback |-> upper, stkCallback |-> lower, own |-> own]

\* line 193
ExtractPayload(body) ==
    IF body.BodyStkCallback.obj THEN body.BodyStkCallback
    ELSE IF body.StkCallback.obj THEN body.StkCallback
    ELSE IF body.stkCallback.obj THEN body.stkCallback
    ELSE body.own

\* lines 195-197
ExtractCallbackId(payload) ==
    JsOr(payload.CheckoutRequestID, JsOr(payload.checkoutRequestID, JsNull))

ExtractResultCode(payload) ==
    JsOr(payload.ResultCode, JsOr(payload.resultCode, JsNull))

ExtractResultDesc(payload) ==
    JsOr(payload.ResultDesc, JsOr(payload.resultDesc, JsNull))

\* The document written at lines 200-206.  receivedAt is the server
\* timestamp of the write: at, the rank of the delivery among the
\* deliveries the handler has received, later for a later write.
ResultDoc(body, at) ==
    LET payload == ExtractPayload(body)
    IN  [raw |-> body,
         checkoutRequestId |-> ExtractCallbackId(payload),
         resultCode |-> ExtractResultCode(payload),
         resultDesc |-> ExtractResultDesc(payload),
         receivedAt |-> at]

\* Firestore auto-generated document ids are fresh and never collide with a
\* gateway identifier.
AutoId(k) == "auto-" \o ToString(k)

\* ResultDocId always generating an id
ResultDocIdGenerated(id, k) == AutoId(k)

\* line 199: the identifier when there is one, else the k-th generated id
ResultDocId(id, k) == IF Truthy(id) THEN id.s ELSE AutoId(k)

\* ---------------------------------------------------------------- inputs
Local07  == <<"0", "7", "1", "2", "3", "4", "5", "6", "7", "8">>
TooShort == <<"0", "7", "1", "1">>
OnlyBlank == <<" ">>

StkReq(method, phone, amount) ==
    [method |-> method, phone |-> phone, amount |-> amount,
     uid |-> "", accountRef |-> <<>>, description |-> ""]

NoStkReq == StkReq("", <<>>, <<>>)

\* The fields of req.body (or of req.query when the body is empty): phone
\* and amount as text, '' standing for a missing field as well.
StkRequests ==
    { StkReq("OPTIONS", <<>>, <<>>),
      StkReq("POST", <<>>, <<"1", "0", "0">>),
      StkReq("POST", OnlyBlank, <<"1", "0", "0">>),
      StkReq("POST", Local07, <<"1", "0", "0">>),
      StkReq("POST", Local07, <<"0">>),
      StkReq("POST", Local07, <<"a", "b", "c">>),
      StkReq("POST", Local07, <<"-", "5">>),
      StkReq("POST", TooShort, <<"1", "0", "0">>) }

\* The requests drawn where invocations interleave with callbacks: one per
\* way a request can end before the store is reached, and a valid one.
CoreRequests ==
    { StkReq("OPTIONS", <<>>, <<>>),
      StkReq("POST", <<>>, <<"1", "0", "0">>),
      StkReq("POST", OnlyBlank, <<"1", "0", "0">>),
      StkReq("POST", Local07, <<"1", "0", "0">>) }

CbReq(method, body) == [method |-> method, body |-> body]

EmptyBody == CallbackBody(NoPayload, NoPayload, NoPayload, EmptyPayload)

CallbackRequests ==
    { CbReq("OPTIONS", EmptyBody),
      \* {Body:{stkCallback:{CheckoutRequestID, ResultCode:0, ResultDesc}}}
      CbReq("POST", CallbackBody(
          Payload(JsStr("ws_CO_1"), JsUndefined, JsNum(0), JsUndefined,
                  JsStr("Success"), JsUndefined),
          NoPayload, NoPayload, EmptyPayload)),
      \* the flattened payload, a failure code
      CbReq("POST", CallbackBody(NoPayload, NoPayload, NoPayload,
          Payload(JsStr("ws_CO_1"), JsUndefined, JsNum(1032), JsUndefined,
                  JsStr("Cancelled"), JsUndefined))),
      \* {stkCallback:{checkoutRequestID, resultCode, resultDesc}}
      CbReq("POST", CallbackBody(NoPayload, NoPayload,
          Payload(JsUndefined, JsStr("ws_CO_2"), JsUndefined, JsNum(0),
                  JsUndefined, JsStr("Success")),
          EmptyPayload)),
      \* no correlation identifier at all
      CbReq("POST", EmptyBody),
      \* a correlation identifier that is not a string
      CbReq("POST", CallbackBody(NoPayload, NoPayload, NoPayload,
          Payload(JsNum(7), JsUndefined, JsNum(0), JsUndefined,
                  JsUndefined, JsUndefined))) }

EnvProd ==
    [consumerKey |-> "ck", consumerSecret |-> "cs", passkey |-> "pk", paybill |-> "174379",
     oauthurl |-> <<"https://", ProdHost, "/oauth/v1/generate">>,
     stkurl |-> "https://api.safaricom.co.ke/mpesa/stkpush/v1/processrequest",
     callbackurl |-> "https://backend/darajaCallback"]

EnvPartial == [EnvProd EXCEPT !.passkey = ""]

DocOther ==
    [consumerKey |-> "dk", consumerSecret |-> "ds", passkey |-> "dp", paybill |-> "600000",
     oauthurl |-> <<"https://", "gateway.test", "/oauth/v1/generate">>,
     stkurl |-> "https://gateway.test/stkpush",
     callbackurl |-> "https://backend/darajaCallback"]

DocPartial == [DocOther EXCEPT !.stkurl = ""]

\* process.env and the app_config/daraja document, fixed for a behaviour
Deployments ==
    { [environ |-> EnvProd,    doc |-> [exists |-> FALSE, data |-> NoBundle]],
      [environ |-> EnvPartial, doc |-> [exists |-> TRUE,  data |-> DocOther]],
      [environ |-> EnvPartial, doc |-> [exists |-> TRUE,  data |-> DocPartial]],
      [environ |-> NoBundle,   doc |-> [exists |-> FALSE, data |-> NoBundle]] }

\* Phone texts: what may come before the digits, the leading digits, the
\* digit that must be 7, the remaining digits with or without separators,
\* and what may follow.
PhonePre  == {<<>>, <<"+">>, <<" ", "+">>, <<"+", "+">>, <<"(">>}
PhoneLead == {<<>>, <<"0">>, <<"2", "5", "4">>, <<"0", "0">>, <<"2", "5", "5">>}
PhoneSecond == {<<"7">>, <<"1">>}
PhoneRest ==
    { SubSeq(<<"1", "2", "3", "4", "5", "6", "7", "8", "9">>, 1, n) : n \in 7..9 }
    \cup { <<"0", "0", "0", "0", "0", "0", "0", "0">>,
           <<"1", "2", "3", "-", "4", "5", "6", "7", "8">>,
           <<"1", "2", "3", " ", "4", "5", "a", "6", "7", "8">> }
PhonePost == {<<>>, <<" ">>}

PhoneTexts ==
    { a \o b \o c \o d \o e :
         a \in PhonePre, b \in PhoneLead, c \in PhoneSecond, d \in PhoneRest,
         e \in PhonePost }
    \cup { <<"+">>, <<"a", "b", "c">>, TooShort, <<"7">> }

PhoneRequests == { StkReq("POST", t, <<"1", "0", "0">>) : t \in PhoneTexts }

\* The seven values, each present or absent on its own.
Fields ==
    {"consumerKey", "consumerSecret", "passkey", "paybill", "oauthurl", "stkurl",
     "callbackurl"}

\* d without the values named in S
Without(d, S) ==
    [consumerKey    |-> IF "consumerKey" \in S THEN "" ELSE d.consumerKey,
     consumerSecret |-> IF "consumerSecret" \in S THEN "" ELSE d.consumerSecret,
     passkey        |-> IF "passkey" \in S THEN "" ELSE d.passkey,
     paybill        |-> IF "paybill" \in S THEN "" ELSE d.paybill,
     oauthurl       |-> IF "oauthurl" \in S THEN <<>> ELSE d.oauthurl,
     stkurl         |-> IF "stkurl" \in S THEN "" ELSE d.stkurl,
     callbackurl    |-> IF "callbackurl" \in S THEN "" ELSE d.callbackurl]

\* every environment and every state of app_config/daraja: absent, or
\* present with any of the values missing
ConfigDeployments ==
    { [environ |-> Without(EnvProd, S), doc |-> d] :
         S \in SUBSET Fields,
         d \in {[exists |-> FALSE, data |-> NoBundle]}
               \cup {[exists |-> TRUE, data |-> Without(DocOther, T)] : T \in SUBSET Fields} }

\* ------------------------------------------------------------------ state
VARIABLES
    environ,    \* process.env, the seven DARAJA_* values
    fsdoc,      \* the document app_config/daraja
    pending,    \* collection payments_pending, in order of creation
    results,    \* collection payments_results: [id, doc], one per document id
    autoIds,    \* number of generated payments_results ids
    stk,        \* the stkPush invocations: where each stands, its locals
    cb,         \* the darajaCallback invocations
    out         \* the HTTP response sent last

vars == <<environ, fsdoc, pending, results, autoIds, stk, cb, out>>

StkIdle ==
    [pc |-> "idle", body |-> NoStkReq, cfg |-> NoBundle, token |-> "",
     amount |-> 0, phone |-> <<>>, stkBody |-> NoStkBody, calls |-> <<>>,
     read |-> FALSE, rec |-> 0, sent |-> FALSE, resp |-> NoResp]

StkDone == [StkIdle EXCEPT !.pc = "done"]

CbIdle ==
    [pc |-> "idle", body |-> EmptyBody, checkoutRequestId |-> JsNull, resultCode |-> JsNull,
     resultDesc |-> JsNull, ref |-> 0]

CbDone == [CbIdle EXCEPT !.pc = "done"]

NoOut ==
    [kind |-> "none", code |-> 0, ok |-> FALSE, details |-> "", logged |-> "", via |-> "",
     req |-> NoStkReq, calls |-> <<>>, read |-> FALSE, rec |-> 0, sent |-> FALSE]

\* res.status(code) of stkPush and what line 179 logged, with what the
\* invocation had done by then
StkOut(code, details, via, s, req, calls) ==
    [kind |-> "stkPush", code |-> code, ok |-> (code = 200), details |-> details,
     logged |-> IF code = 502 THEN details ELSE "", via |-> via, req |-> req,
     calls |-> calls, read |-> s.read, rec |-> s.rec, sent |-> s.sent]

\* CallbackAnswer acknowledging whatever happened
CallbackAnswerAlwaysOk(err) == [code |-> 200, text |-> "OK"]

\* Lines 221-225: the answer of darajaCallback, err being the message of
\* the error the try block caught ('' when none was thrown)
CallbackAnswer(err) ==
    IF err = "" THEN [code |-> 200, text |-> "OK"] ELSE [code |-> 500, text |-> "error"]

\* what darajaCallback sends and what line 223 logs
CbOut(err, via) ==
    [kind |-> "darajaCallback", code |-> CallbackAnswer(err).code, ok |-> FALSE,
     details |-> CallbackAnswer(err).text, logged |-> err, via |-> via,
     req |-> NoStkReq, calls |-> <<>>, read |-> FALSE, rec |-> 0, sent |-> FALSE]

\* line 190
CbPreflight ==
    [kind |-> "darajaCallback", code |-> 204, ok |-> FALSE, details |-> "",
     logged |-> "", via |-> "receive", req |-> NoStkReq, calls |-> <<>>,
     read |-> FALSE, rec |-> 0, sent |-> FALSE]

\* The deployment the concurrent behaviours are explored under: secrets in
\* the environment, production gateway.
Deployed == [environ |-> EnvProd, doc |-> [exists |-> FALSE, data |-> NoBundle]]

InitIn(deployments) ==
    /\ \E d \in deployments : environ = d.environ /\ fsdoc = d.doc
    /\ pending = <<>>
    /\ results = {}
    /\ autoIds = 0
    /\ stk = [i \in StkIds |-> StkIdle]
    /\ cb = [j \in CbIds |-> CbIdle]
    /\ out = NoOut

Init == InitIn({Deployed})

\* ------------------------------------------------------------ the store
\* SetDoc refusing to replace a document that exists
SetDocKeepFirst(coll, id, d) ==
    IF \E e \in coll : e.id = id THEN coll ELSE coll \cup {[id |-> id, doc |-> d]}

\* doc(id).set(d): creates the document or replaces the one with that id
SetDoc(coll, id, d) == {e \in coll : e.id # id} \cup {[id |-> id, doc |-> d]}

HasDoc(coll, id) == \E e \in coll : e.id = id

GetDoc(coll, id) == (CHOOSE e \in coll : e.id = id).doc

\* Matching without the where clause
MatchingAny(coll, x) == {r \in 1..Len(coll) : TRUE}

\* where('checkoutRequestId', '==', x): the documents a query can return
Matching(coll, x) == {r \in 1..Len(coll) : coll[r].checkoutRequestId = x}

\* ---------------------------------------------------------------- stkPush
\* Lines 106-145: everything stkPush does before its first store write.
\* Either the response it ends with, or the locals it goes on with; calls
\* are the token requests it made.
StkPrepare(env, doc, req, readOk, o1, o2) ==
    LET amount == parseInt(req.amount)
        c == getDarajaConfig(env, doc, readOk)
        t == AcquireToken(c.cfg, o1, o2)
        p == normalizePhoneForDaraja(req.phone)
        stop(code, details, calls, read) ==
            [next |-> "respond", code |-> code, details |-> details, calls |-> calls,
             read |-> read, cfg |-> NoBundle, token |-> "", phone |-> <<>>, amount |-> 0]
    IN  IF req.method = "OPTIONS" THEN stop(204, "", <<>>, FALSE)
        ELSE IF req.phone = <<>> \/ AmountFalsy(amount)
        THEN stop(400, "phone and amount required", <<>>, FALSE)
        ELSE IF ~c.ok THEN stop(502, c.err, <<>>, c.read)
        ELSE IF ~t.ok THEN stop(502, t.err, t.calls, c.read)
        ELSE IF ~p.ok THEN stop(502, p.err, t.calls, c.read)
        ELSE [next |-> "persist", code |-> 0, details |-> "", calls |-> t.calls,
              read |-> c.read, cfg |-> c.cfg, token |-> t.token, phone |-> p.v,
              amount |-> amount.n]

StkReceive(i, req, readOk, o1, o2) ==
    /\ stk[i].pc = "idle"
    /\ IF i = 1 THEN TRUE ELSE stk[i - 1].pc # "idle"
    /\ LET r == StkPrepare(environ, fsdoc, req, readOk, o1, o2)
       IN  IF r.next = "respond"
           THEN /\ stk' = [stk EXCEPT ![i] = StkDone]
                /\ out' = StkOut(r.code, r.details, "receive",
                                 [StkIdle EXCEPT !.read = r.read], req, r.calls)
           ELSE /\ stk' = [stk EXCEPT ![i] =
                              [StkIdle EXCEPT !.pc = "persist", !.body = req,
                                              !.cfg = r.cfg, !.token = r.token,
                                              !.phone = r.phone, !.amount = r.amount,
                                              !.stkBody = StkBody(r.cfg, req, r.phone, r.amount),
                                              !.calls = r.calls, !.read = r.read]]
                /\ UNCHANGED out
    /\ UNCHANGED <<environ, fsdoc, pending, results, autoIds, cb>>

\* Lines 147-156: pendingRef.set; ok is whether the store accepts the write.
StkPersist(i, ok) ==
    /\ stk[i].pc = "persist"
    /\ LET s == stk[i]
       IN  IF ok
           THEN /\ pending' = Append(pending, PendingDoc(s.body, s.phone, s.amount, s.stkBody))
                /\ stk' = [stk EXCEPT ![i].pc = "push", ![i].rec = Len(pending) + 1]
                /\ UNCHANGED out
           ELSE /\ stk' = [stk EXCEPT ![i] = StkDone]
                /\ out' = StkOut(502, "store-error", "persist", s, s.body, s.calls)
                /\ UNCHANGED pending
    /\ UNCHANGED <<environ, fsdoc, results, autoIds, cb>>

\* Line 158, the call: the push request leaves with stkBody as its payload.
StkSend(i) ==
    /\ stk[i].pc = "push"
    /\ stk' = [stk EXCEPT ![i].pc = "wait", ![i].sent = TRUE]
    /\ UNCHANGED <<environ, fsdoc, pending, results, autoIds, cb, out>>

\* Line 158, the await: the push request completes with outcome o.
StkPost(i, o) ==
    /\ stk[i].pc = "wait"
    /\ LET s == stk[i]
       IN  IF o.kind = "throw"
           THEN /\ stk' = [stk EXCEPT ![i] = StkDone]
                /\ out' = StkOut(502, "network-error", "post", s, s.body, s.calls)
           ELSE /\ stk' = [stk EXCEPT ![i].pc = "update", ![i].resp = o]
                /\ UNCHANGED out
    /\ UNCHANGED <<environ, fsdoc, pending, results, autoIds, cb>>

\* Lines 164-177: pendingRef.update and the 200 answer.
StkUpdate(i, ok) ==
    /\ stk[i].pc = "update"
    /\ LET s == stk[i]
       IN  IF ok
           THEN /\ pending' = [pending EXCEPT ![s.rec] = PostCallUpdate(pending[s.rec], s.resp)]
                /\ out' = StkOut(200, "", "update", s, s.body, s.calls)
           ELSE /\ out' = StkOut(502, "store-error", "update", s, s.body, s.calls)
                /\ UNCHANGED pending
    /\ stk' = [stk EXCEPT ![i] = StkDone]
    /\ UNCHANGED <<environ, fsdoc, results, autoIds, cb>>

\* --------------------------------------------------------- darajaCallback
\* Lines 189-206 and, without a correlation identifier, line 221.
CbReceive(j, req, ok) ==
    /\ cb[j].pc = "idle"
    /\ IF j = 1 THEN TRUE ELSE cb[j - 1].pc # "idle"
    /\ LET d == ResultDoc(req.body, j)
           id == d.checkoutRequestId
           generate == req.method # "OPTIONS" /\ ~Truthy(id)
           docId == ResultDocId(id, autoIds + 1)
           \* doc(docId) throws on an id that is not a string
           written == ok /\ (Truthy(id) => id.t = "string")
       IN  /\ autoIds' = IF generate THEN autoIds + 1 ELSE autoIds
           /\ IF req.method = "OPTIONS"
              THEN /\ cb' = [cb EXCEPT ![j] = CbDone]
                   /\ out' = CbPreflight
                   /\ UNCHANGED results
              ELSE IF ~written
              THEN /\ cb' = [cb EXCEPT ![j] = CbDone]
                   /\ out' = CbOut(IF ok THEN "invalid-document-path" ELSE "store-error",
                                   "receive")
                   /\ UNCHANGED results
              ELSE /\ results' = SetDoc(results, docId, d)
                   /\ IF Truthy(id)
                      THEN /\ cb' = [cb EXCEPT ![j] =
                                        [CbIdle EXCEPT !.pc = "query",
                                                       !.body = req.body,
                                                       !.checkoutRequestId = id,
                                                       !.resultCode = d.resultCode,
                                                       !.resultDesc = d.resultDesc]]
                           /\ UNCHANGED out
                      ELSE /\ cb' = [cb EXCEPT ![j] = CbDone]
                           /\ out' = CbOut("", "receive")
    /\ UNCHANGED <<environ, fsdoc, pending, stk>>

\* Lines 209-211: the query; with several matches limit(1) returns any one.
CbQuery(j, ok) ==
    /\ cb[j].pc = "query"
    /\ LET found == Matching(pending, cb[j].checkoutRequestId)
       IN  IF ~ok
           THEN /\ cb' = [cb EXCEPT ![j] = CbDone]
                /\ out' = CbOut("store-error", "query")
           ELSE IF found = {}
           THEN /\ cb' = [cb EXCEPT ![j] = CbDone]
                /\ out' = CbOut("", "query")
           ELSE /\ \E r \in found : cb' = [cb EXCEPT ![j].pc = "update", ![j].ref = r]
                /\ UNCHANGED out
    /\ UNCHANGED <<environ, fsdoc, pending, results, autoIds, stk>>

\* Lines 212-221: pdoc.update and the acknowledgement.
CbUpdate(j, ok) ==
    /\ cb[j].pc = "update"
    /\ LET c == cb[j]
       IN  IF ok
           THEN /\ pending' = [pending EXCEPT ![c.ref] =
                                  ReconcileUpdate(pending[c.ref], c.resultCode, c.resultDesc)]
                /\ out' = CbOut("", "update")
           ELSE /\ out' = CbOut("store-error", "update")
                /\ UNCHANGED pending
    /\ cb' = [cb EXCEPT ![j] = CbDone]
    /\ UNCHANGED <<environ, fsdoc, results, autoIds, stk>>

\* a request that passes the validation of line 112 and normalizes
ValidRequests == {StkReq("POST", Local07, <<"1", "0", "0">>)}

\* the answers of the OAuth endpoint that carry a token
GrantedTokens == {o \in CoreTokens : getDarajaToken(<<>>, o).ok}

\* The outcomes of the calls an invocation actually makes: a request that
\* is answered before a call is reached draws no outcome for it.
Validated(req) ==
    req.method # "OPTIONS" /\ req.phone # <<>> /\ ~AmountFalsy(parseInt(req.amount))

ReadOutcomes(req) ==
    IF Validated(req) /\ ~Complete(environ) THEN BOOLEAN ELSE {TRUE}

FirstTokenOutcomes(req, readOk, tokens) ==
    IF Validated(req) /\ getDarajaConfig(environ, fsdoc, readOk).ok
    THEN tokens
    ELSE {CHOOSE o \in tokens : TRUE}

SecondTokenOutcomes(req, readOk, o1, tokens) ==
    LET c == getDarajaConfig(environ, fsdoc, readOk)
    IN  IF Validated(req) /\ c.ok /\ ~getDarajaToken(c.cfg.oauthurl, o1).ok
           /\ Includes(c.cfg.oauthurl, ProdHost)
        THEN tokens
        ELSE {o1}

StkReceiveAny(i, requests, tokens) ==
    \E req \in requests :
       \E readOk \in ReadOutcomes(req) :
          \E o1 \in FirstTokenOutcomes(req, readOk, tokens) :
             \E o2 \in SecondTokenOutcomes(req, readOk, o1, tokens) :
                StkReceive(i, req, readOk, o1, o2)

\* stkPush and darajaCallback invocations, freely interleaved
Next ==
    \/ \E i \in StkIds : StkReceiveAny(i, CoreRequests, CoreTokens)
    \/ \E i \in StkIds, ok \in BOOLEAN : StkPersist(i, ok)
    \/ \E i \in StkIds : StkSend(i)
    \/ \E i \in StkIds, o \in CoreOutcomes : StkPost(i, o)
    \/ \E i \in StkIds, ok \in BOOLEAN : StkUpdate(i, ok)
    \/ \E j \in CbIds, req \in CallbackRequests, ok \in BOOLEAN : CbReceive(j, req, ok)
    \/ \E j \in CbIds, ok \in BOOLEAN : CbQuery(j, ok)
    \/ \E j \in CbIds, ok \in BOOLEAN : CbUpdate(j, ok)

\* stkPush invocations alone, over every request and every deployment
NextInitiator ==
    \/ \E i \in StkIds : StkReceiveAny(i, StkRequests, TokenOutcomes)
    \/ \E i \in StkIds, ok \in BOOLEAN : StkPersist(i, ok)
    \/ \E i \in StkIds : StkSend(i)
    \/ \E i \in StkIds, o \in PushOutcomes : StkPost(i, o)
    \/ \E i \in StkIds, ok \in BOOLEAN : StkUpdate(i, ok)

\* config resolution, as the first thing a valid request whose token
\* request succeeds goes through
NextConfig ==
    \E i \in StkIds : StkReceiveAny(i, ValidRequests, GrantedTokens)

\* phone normalization, as a valid request whose token request succeeds
\* goes through it
NextPhone ==
    \E req \in PhoneRequests, o \in GrantedTokens :
       StkReceive(1, req, TRUE, o, o)

Spec == Init /\ [][Next]_vars

SpecInitiator == InitIn(Deployments) /\ [][NextInitiator]_vars

SpecConfig == InitIn(ConfigDeployments) /\ [][NextConfig]_vars

SpecPhone == Init /\ [][NextPhone]_vars

\* ================================================================ claims
Active(doc) == doc.status \in {"initiated", "pending"}

Records == 1..Len(pending)

\* the step in which stkPush invocation i sends its answer
StkAnswers(i) == stk[i].pc # "done" /\ stk'[i].pc = "done"

\* the step in which darajaCallback invocation j sends its answer
CbAnswers(j) == cb[j].pc # "done" /\ cb'[j].pc = "done"

\* The result code a callback carries: the PascalCase field when the
\* payload has it, else the camelCase one.
CarriedResultCode(body) ==
    LET p == ExtractPayload(body)
    IN  IF p.ResultCode # JsUndefined THEN p.ResultCode ELSE p.resultCode

\* The identifier a push response carries under any of the three spellings.
CarriedCheckoutId(data) ==
    IF ~data.obj THEN JsNull
    ELSE IF Truthy(data.CheckoutRequestID) THEN data.CheckoutRequestID
    ELSE IF Truthy(data.checkoutRequestID) THEN data.checkoutRequestID
    ELSE IF Truthy(data.CheckoutRequestId) THEN data.CheckoutRequestId
    ELSE JsNull

\* C1: when a callback updates the pending transaction whose stored
\* checkoutRequestId equals the callback's, the status becomes success if
\* the callback's result code is the integer 0 and failed otherwise.
C1_StatusFollowsResultCode ==
    [][\A j \in CbIds :
          (cb[j].pc = "update" /\ CbAnswers(j) /\ out'.logged = "")
          => pending'[cb[j].ref].status =
                IF CarriedResultCode(cb[j].body) = JsNum(0) THEN "success" ELSE "failed"]_vars

\* C2: a stkPush request whose phone is empty after trimming, or whose
\* amount does not parse to a non-zero integer, is answered 400 and has
\* made no store write, no token request and no push request.
C2_InvalidInputNoSideEffects ==
    (out.kind = "stkPush" /\ out.req.method = "POST"
     /\ (Trim(out.req.phone) = <<>> \/ AmountFalsy(parseInt(out.req.amount))))
    => (out.code = 400 /\ out.calls = <<>> /\ out.rec = 0 /\ ~out.sent)

\* C3: the push request is sent only once the invocation's record is stored
\* with status initiated, a null identifier and the exact payload; between
\* the write and the completion of the request the record is exactly that.
C3_PersistedBeforePush ==
    /\ \A i \in StkIds :
          /\ stk[i].sent => stk[i].rec \in Records
          /\ stk[i].pc \in {"push", "wait"} =>
                /\ stk[i].rec \in Records
                /\ pending[stk[i].rec].status = "initiated"
                /\ pending[stk[i].rec].checkoutRequestId = JsNull
                /\ pending[stk[i].rec].requestBody = stk[i].stkBody
                /\ stk[i].stkBody # NoStkBody
    /\ out.sent => out.rec \in Records

C3_Witness ==
    \E i \in StkIds :
       /\ stk[i].pc = "push" /\ ~stk[i].sent
       /\ pending[stk[i].rec].status = "initiated"
       /\ results # {}

\* C4: once the push request of an invocation has completed, with a
\* response or with a transport failure or timeout, the invocation's record
\* has left status initiated when the handler answers, unless the store
\* refused the write.
C4_UpdatedAfterPush ==
    [][\A i \in StkIds :
          (stk[i].sent /\ StkAnswers(i) /\ out'.details # "store-error")
          => pending'[stk[i].rec].status # "initiated"]_vars

C6_AcknowledgedUnlessThrown ==
    [][\A j \in CbIds :
          /\ (CbAnswers(j) /\ out'.code # 204) =>
                /\ out'.kind = "darajaCallback"
                /\ out'.code \in {200, 500}
                /\ out'.code = 200 <=> out'.logged = ""
                /\ out'.code = 200 <=> out'.details = "OK"
          /\ (cb[j].pc = "query" /\ Matching(pending, cb[j].checkoutRequestId) = {}
              /\ cb'[j] # cb[j]) =>
                /\ CbAnswers(j)
                /\ pending' = pending
                /\ HasDoc(results', cb[j].checkoutRequestId.s)
                /\ out'.logged = "" => out'.code = 200]_vars

C6_Witness ==
    /\ out.kind = "darajaCallback" /\ out.code = 200 /\ out.via = "query"
    /\ Len(pending) > 0
    /\ \E e \in results : e.id = "ws_CO_2"

\* C7: when the push request returns a response and the store accepts the
\* update, the record becomes pending iff 200 <= status < 300 and failed
\* otherwise, with the identifier the response carries, and stkPush answers
\* 200 with ok = true either way.
C7_PostCallUpdate ==
    [][\A i \in StkIds :
          (stk[i].pc = "update" /\ StkAnswers(i)) =>
             /\ stk[i].resp.kind = "resp"
             /\ out'.code = 502 => out'.details = "store-error"
             /\ out'.details # "store-error" =>
                   /\ pending'[stk[i].rec].status =
                         IF 200 <= stk[i].resp.status /\ stk[i].resp.status < 300
                         THEN "pending" ELSE "failed"
                   /\ pending'[stk[i].rec].checkoutRequestId =
                         CarriedCheckoutId(stk[i].resp.data)
                   /\ pending'[stk[i].rec].responseStatus = stk[i].resp.status
                   /\ out'.code = 200
                   /\ out'.ok]_vars

C7_Witness ==
    /\ out.kind = "stkPush" /\ out.code = 200 /\ out.ok
    /\ pending[out.rec].status = "failed"
    /\ pending[out.rec].responseStatus = 300
    /\ pending[out.rec].checkoutRequestId = JsStr("ws_CO_2")

\* C8: an invocation makes a second token request iff the first failed and
\* the configured OAuth URL contains the production host; the second goes
\* to the sandbox host and there is never a third.  When the URL is not the
\* production host the first failure ends the invocation with that error
\* and 502, no push request and no pending transaction.
TokenCallsAsClaimed(calls) ==
    /\ Len(calls) <= 2
    /\ calls # <<>> => calls[1].url = getDarajaConfig(environ, fsdoc, TRUE).cfg.oauthurl
    /\ Len(calls) = 2 <=>
          (calls # <<>> /\ ~calls[1].ok /\ Includes(calls[1].url, ProdHost))
    /\ Len(calls) = 2 =>
          /\ Includes(calls[2].url, SandboxHost)
          /\ ~Includes(calls[2].url, ProdHost)

C8_SandboxRetry ==
    /\ \A i \in StkIds :
          /\ TokenCallsAsClaimed(stk[i].calls)
          /\ stk[i].calls # <<>> => stk[i].calls[Len(stk[i].calls)].ok
    /\ TokenCallsAsClaimed(out.calls)
    /\ (out.kind = "stkPush" /\ out.calls # <<>> /\ ~out.calls[1].ok
        /\ ~Includes(out.calls[1].url, ProdHost)) =>
          /\ out.code = 502
          /\ out.details = out.calls[1].err
          /\ out.rec = 0
          /\ ~out.sent

C8_Witness ==
    \E i \in StkIds :
       /\ stk[i].pc = "persist"
       /\ Len(stk[i].calls) = 2
       /\ ~stk[i].calls[1].ok /\ stk[i].calls[2].ok

\* C9: a status of success or failed is never changed to another value;
\* status moves initiated -> {pending, failed} only in the post-call update
\* of the record's own invocation, and then -> {success, failed} only in a
\* callback's update.
C9_TerminalStatusStays ==
    [][\A r \in Records :
          /\ pending[r].status \in {"success", "failed"} =>
                pending'[r].status = pending[r].status
          /\ pending'[r].status # pending[r].status =>
                \/ /\ pending[r].status = "initiated"
                   /\ pending'[r].status \in {"pending", "failed"}
                   /\ \E i \in StkIds :
                         stk[i].pc = "update" /\ stk[i].rec = r /\ StkAnswers(i)
                \/ /\ pending[r].status = "pending"
                   /\ pending'[r].status \in {"success", "failed"}
                   /\ \E j \in CbIds :
                         cb[j].pc = "update" /\ cb[j].ref = r /\ CbAnswers(j)]_vars

\* a record the post-call update marked failed, later hit by a callback
\* reporting success
C9_Witness ==
    \E r \in Records :
       /\ pending[r].status = "failed"
       /\ pending[r].responseStatus = 500
       /\ pending[r].callbackAt
       /\ pending[r].resultDesc = JsStr("Success")

\* C10 as claimed: no two distinct active pending transactions hold the
\* same non-null correlation identifier.
C10_UniqueAmongActive ==
    \A r1 \in Records, r2 \in Records :
       (r1 # r2 /\ Active(pending[r1]) /\ Active(pending[r2])
        /\ pending[r1].checkoutRequestId # JsNull)
       => pending[r1].checkoutRequestId # pending[r2].checkoutRequestId

\* C10 as amended: two distinct active pending transactions hold the same
\* non-null correlation identifier only if the gateway returned that
\* identifier in the push response of each of them.
C10_UniqueUnlessIssuedTwice ==
    \A r1 \in Records, r2 \in Records :
       (r1 # r2 /\ Active(pending[r1]) /\ Active(pending[r2])
        /\ pending[r1].checkoutRequestId # JsNull
        /\ pending[r1].checkoutRequestId = pending[r2].checkoutRequestId)
       => /\ CarriedCheckoutId(pending[r1].responseBody) = pending[r1].checkoutRequestId
          /\ CarriedCheckoutId(pending[r2].responseBody) = pending[r2].checkoutRequestId

C10_Witness ==
    \E r1 \in Records, r2 \in Records :
       /\ Active(pending[r1]) /\ Active(pending[r2])
       /\ pending[r1].checkoutRequestId = JsStr("ws_CO_1")
       /\ pending[r2].checkoutRequestId = JsStr("ws_CO_2")

\* C11: every pending transaction stkPush persists has a positive amount; a
\* request whose amount parses to zero, to a negative integer or to no
\* number creates no pending transaction and sends no push request.
C11_PositiveAmount ==
    /\ \A r \in Records : pending[r].amount > 0
    /\ (out.kind = "stkPush" /\ out.req.method = "POST"
        /\ (parseInt(out.req.amount).nan \/ parseInt(out.req.amount).n <= 0))
       => (out.rec = 0 /\ ~out.sent)

\* Callback j's lookup for X runs while invocation i holds a push response
\* carrying X that its post-call update has not persisted yet.
Raced(i, j) ==
    /\ stk[i].pc = "update"
    /\ cb[j].pc = "query"
    /\ CarriedCheckoutId(stk[i].resp.data) = cb[j].checkoutRequestId

\* the step in which the lookup of callback j returns (it did not throw)
QueryAnswered(j) ==
    /\ cb[j].pc = "query"
    /\ \/ cb'[j].pc = "update"
       \/ cb'[j].pc = "done" /\ out'.logged = ""

\* every change of a pending transaction is its invocation's post-call
\* update or the update of a callback whose lookup returned it, and a lookup
\* returns only a transaction that stores the callback's identifier
OnlyFoundIsReconciled ==
    /\ \A j \in CbIds :
          (cb[j].pc = "query" /\ cb'[j].pc = "update") =>
             /\ cb'[j].ref \in Records
             /\ pending[cb'[j].ref].checkoutRequestId = cb[j].checkoutRequestId
    /\ \A r \in Records :
          pending'[r] # pending[r] =>
             \/ \E i \in StkIds : stk[i].pc = "update" /\ stk[i].rec = r /\ StkAnswers(i)
             \/ \E j \in CbIds : cb[j].pc = "update" /\ cb[j].ref = r /\ CbAnswers(j)

\* C12 as claimed: a callback for X whose lookup runs after the push request
\* returned X and before the post-call update persisted it finds no pending
\* transaction, is acknowledged with 200 with its record stored, changes no
\* pending transaction, and nothing later reconciles it.
C12_RacedLookupFindsNothing ==
    [][/\ \A i \in StkIds, j \in CbIds :
             (Raced(i, j) /\ QueryAnswered(j)) =>
                /\ \A r \in Records :
                      pending[r].checkoutRequestId # cb[j].checkoutRequestId
                /\ CbAnswers(j)
                /\ out'.code = 200
                /\ HasDoc(results', cb[j].checkoutRequestId.s)
                /\ pending' = pending
       /\ OnlyFoundIsReconciled]_vars

\* C12 as amended: such a lookup never returns the invocation's own
\* transaction and returns nothing unless another transaction already
\* stores X; when it returns nothing the callback is acknowledged with 200
\* with its record stored and no pending transaction changed; afterwards the
\* transaction changes only in its post-call update and in the update of a
\* callback whose lookup returned it.
C12_RacedCallbackUnreconciled ==
    [][/\ \A i \in StkIds, j \in CbIds :
             (Raced(i, j) /\ QueryAnswered(j)) =>
                /\ pending[stk[i].rec].checkoutRequestId = JsNull
                /\ cb'[j].pc = "update" =>
                      /\ cb'[j].ref # stk[i].rec
                      /\ pending[cb'[j].ref].checkoutRequestId = cb[j].checkoutRequestId
                /\ cb'[j].pc = "done" <=>
                      \A r \in Records :
                         pending[r].checkoutRequestId # cb[j].checkoutRequestId
                /\ cb'[j].pc = "done" =>
                      /\ out'.code = 200
                      /\ HasDoc(results', cb[j].checkoutRequestId.s)
                /\ pending' = pending
       /\ OnlyFoundIsReconciled]_vars

\* the raced callback has been acknowledged, its record is stored, and the
\* invocation still holds the unpersisted identifier
C12_Witness ==
    /\ out.kind = "darajaCallback" /\ out.code = 200 /\ out.via = "query"
    /\ \A j \in CbIds : cb[j].pc \in {"idle", "done"}
    /\ HasDoc(results, "ws_CO_1") /\ ~HasDoc(results, "ws_CO_2")
    /\ \A r \in Records : pending[r].checkoutRequestId = JsNull
    /\ \E i \in StkIds :
          /\ stk[i].pc = "update"
          /\ CarriedCheckoutId(stk[i].resp.data) = JsStr("ws_CO_1")
          /\ Is2xx(stk[i].resp.status)

\* the callback-result records whose raw body is b
StoredOf(coll, b) == {e \in coll : e.doc.raw = b}

\* C13: a stored delivery of a body that was stored before adds a second,
\* distinct record under a fresh generated key when the body carries no
\* correlation identifier, and leaves exactly one record, keyed by the
\* identifier and written by this delivery, when it carries one.
C13_RedeliveryRecords ==
    [][\A j \in CbIds :
          /\ (cb[j].pc = "idle" /\ CbAnswers(j) /\ out'.code = 200) =>
                LET b == GetDoc(results', AutoId(autoIds')).raw
                IN  /\ ~Truthy(ExtractCallbackId(ExtractPayload(b)))
                    /\ ~HasDoc(results, AutoId(autoIds'))
                    /\ results \subseteq results'
                    /\ StoredOf(results, b) # {} =>
                          /\ Cardinality(StoredOf(results', b)) =
                                Cardinality(StoredOf(results, b)) + 1
                          /\ Cardinality(StoredOf(results', b)) >= 2
          /\ (cb[j].pc = "idle" /\ cb'[j].pc = "query"
              /\ StoredOf(results, cb'[j].body) # {}) =>
                LET b  == cb'[j].body
                    id == ExtractCallbackId(ExtractPayload(b))
                IN  /\ Truthy(id)
                    /\ Cardinality(StoredOf(results', b)) = 1
                    /\ \A e \in StoredOf(results', b) :
                          e.id = id.s /\ e.doc.receivedAt = j
                    /\ \A e \in StoredOf(results, b) :
                          e.id = id.s /\ e.doc.receivedAt < j
                    /\ Cardinality(results') = Cardinality(results)
                    /\ {e.id : e \in results'} = {e.id : e \in results}]_vars

\* both deliveries of one body with an identifier are stored, one record
C13_Witness ==
    /\ cb[1].pc = "query" /\ cb[2].pc = "query"
    /\ cb[1].body = cb[2].body
    /\ Cardinality(results) = 1
    /\ \A e \in results : e.doc.receivedAt = 2

\* both deliveries of one body without an identifier are stored, two records
C13_WitnessGenerated ==
    /\ \A j \in CbIds : cb[j].pc = "done"
    /\ autoIds = 2
    /\ Cardinality(results) = 2
    /\ \A e1 \in results, e2 \in results : e1.doc.raw = e2.doc.raw

\* C14: a callback-result record, once created, is never modified or
\* replaced by a later operation: every record of payments_results is still
\* there, with the same content, after every step.
C14_ResultsAppendOnly ==
    [][\A e \in results : e \in results']_vars

\* all seven values of a bundle are there
HasAllSeven(d) ==
    /\ d.consumerKey # "" /\ d.consumerSecret # "" /\ d.passkey # ""
    /\ d.paybill # "" /\ d.oauthurl # <<>> /\ d.stkurl # "" /\ d.callbackurl # ""

\* the seven values of c are those of source d
TakenFrom(c, d) ==
    /\ c.consumerKey = d.consumerKey /\ c.consumerSecret = d.consumerSecret
    /\ c.passkey = d.passkey /\ c.paybill = d.paybill /\ c.oauthurl = d.oauthurl
    /\ c.stkurl = d.stkurl /\ c.callbackurl = d.callbackurl

\* C15: with all seven environment values present the bundle is the
\* environment's and the fallback document is not read; otherwise the
\* document is read and, when it exists and is complete, the bundle is its
\* seven fields; otherwise resolution fails with the configuration-missing
\* error.  A bundle has all seven fields, all from one source.
C15_ConfigResolution ==
    /\ \A i \in StkIds :
          stk[i].pc = "persist" =>
             /\ HasAllSeven(stk[i].cfg)
             /\ IF HasAllSeven(environ)
                THEN TakenFrom(stk[i].cfg, environ) /\ ~stk[i].read
                ELSE /\ stk[i].read
                     /\ fsdoc.exists /\ HasAllSeven(fsdoc.data)
                     /\ TakenFrom(stk[i].cfg, fsdoc.data)
    /\ out.kind = "stkPush" =>
          /\ out.code = 502 /\ out.read /\ ~HasAllSeven(environ)
          /\ out.details \in {"Daraja config missing", "store-error"}
          /\ out.details = "Daraja config missing" =>
                ~(fsdoc.exists /\ HasAllSeven(fsdoc.data))
    /\ (~HasAllSeven(environ) /\ ~(fsdoc.exists /\ HasAllSeven(fsdoc.data))) =>
          \A i \in StkIds : stk[i].pc \in {"idle", "done"}
    /\ (\E i \in StkIds : stk[i].pc = "done") => out.kind = "stkPush"

\* a bundle taken whole from the document although the environment holds
\* six of the seven values
C15_Witness ==
    /\ Cardinality({f \in Fields : Without(environ, {f}) = environ}) = 1
    /\ \E i \in StkIds :
          /\ stk[i].pc = "persist"
          /\ stk[i].read
          /\ TakenFrom(stk[i].cfg, DocOther)
    /\ out.kind = "stkPush" /\ out.details = "store-error"

\* C16: a stkPush request whose phone is not empty and is in none of the
\* three accepted formats, and for which nothing else failed (config
\* resolved, token acquired), is answered 400, with no pending transaction
\* created and no push request sent.
C16_BadPhoneIs400 ==
    (/\ out.kind = "stkPush" /\ out.req.method = "POST"
     /\ Trim(out.req.phone) # <<>>
     /\ ~normalizePhoneForDaraja(out.req.phone).ok
     /\ ~AmountFalsy(parseInt(out.req.amount))
     /\ out.calls # <<>> /\ out.calls[Len(out.calls)].ok)
    => (out.code = 400 /\ out.rec = 0 /\ ~out.sent)

\* the digits of a phone text: what is left once one leading '+' and every
\* character that is not a digit are removed
DigitsOf(raw) == SelectSeq(Trim(raw), LAMBDA c : c \in Digits)

\* what the claim says of a digit string d: the normal form, or <<>> for
\* the unsupported-format error
ClaimedNormalForm(d) ==
    IF Len(d) = 10 /\ d[1] = "0" /\ d[2] = "7"
    THEN <<"2", "5", "4">> \o SubSeq(d, 2, 10)
    ELSE IF Len(d) = 9 /\ d[1] = "7"
    THEN <<"2", "5", "4">> \o d
    ELSE IF Len(d) = 12 /\ d[1] = "2" /\ d[2] = "5" /\ d[3] = "4" /\ d[4] = "7"
    THEN d
    ELSE <<>>

\* C17: normalizePhoneForDaraja returns 254 and the last nine digits for
\* 07dddddddd, 254 and the input for 7dddddddd, the input for 2547dddddddd,
\* and fails with the unsupported-format error for every other digit
\* string.
C17_Normalization ==
    /\ stk[1].pc = "persist" =>
          /\ ClaimedNormalForm(DigitsOf(stk[1].body.phone)) # <<>>
          /\ stk[1].phone = ClaimedNormalForm(DigitsOf(stk[1].body.phone))
          /\ Len(stk[1].phone) = 12
    /\ out.kind = "stkPush" =>
          /\ ClaimedNormalForm(DigitsOf(out.req.phone)) = <<>>
          /\ out.code = 502
          /\ out.details = "Unsupported phone format"

\* +254 7123-45678 with blanks around it, normalized
C17_Witness ==
    /\ stk[1].pc = "persist"
    /\ stk[1].body.phone =
          <<" ", "+", "2", "5", "4", "7", "1", "2", "3", "-", "4", "5", "6", "7", "8", " ">>
    /\ stk[1].phone = <<"2", "5", "4", "7", "1", "2", "3", "4", "5", "6", "7", "8">>

\* the PascalCase field when the payload has it, else the camelCase field
\* when it has that, else null
FirstPresent(upper, lower) ==
    IF upper # JsUndefined THEN upper
    ELSE IF lower # JsUndefined THEN lower
    ELSE JsNull

\* C18: each of the three fields stored in a callback-result record is the
\* payload's PascalCase field when the payload has it, else its camelCase
\* field, and null only when it has neither, whatever value the field
\* carries.
C18_ExtractedFields ==
    \A e \in results :
       LET p == ExtractPayload(e.doc.raw)
       IN  /\ e.doc.checkoutRequestId = FirstPresent(p.CheckoutRequestID, p.checkoutRequestID)
           /\ e.doc.resultCode = FirstPresent(p.ResultCode, p.resultCode)
           /\ e.doc.resultDesc = FirstPresent(p.ResultDesc, p.resultDesc)

\* the correlation identifier a callback body carries, if any
CarriedCallbackId(body) ==
    LET p == ExtractPayload(body)
    IN  IF Truthy(p.CheckoutRequestID) THEN p.CheckoutRequestID
        ELSE IF Truthy(p.checkoutRequestID) THEN p.checkoutRequestID
        ELSE JsNull

\* what a callback's update leaves alone in the transaction it changes
SameBesidesResult(a, b) ==
    /\ a.uid = b.uid /\ a.msisdn = b.msisdn /\ a.amount = b.amount
    /\ a.checkoutRequestId = b.checkoutRequestId
    /\ a.requestBody = b.requestBody
    /\ a.responseStatus = b.responseStatus /\ a.responseBody = b.responseBody
    /\ a.updatedAt = b.updatedAt

\* C19: a callback changes pending transactions only in its update step,
\* and there only the one transaction its lookup returned, which stores the
\* callback's identifier; of that transaction only status, result code,
\* result description and callback timestamp change.  A callback without
\* an identifier never gets to an update.
C19_CallbackFrame ==
    [][\A j \in CbIds :
          /\ (cb'[j] # cb[j] /\ cb[j].pc # "update") => pending' = pending
          /\ cb[j].pc \in {"query", "update"} =>
                /\ Truthy(cb[j].checkoutRequestId)
                /\ cb[j].checkoutRequestId = CarriedCallbackId(cb[j].body)
          /\ (cb'[j] # cb[j] /\ cb[j].pc = "update") =>
                /\ cb[j].ref \in Records
                /\ pending[cb[j].ref].checkoutRequestId = cb[j].checkoutRequestId
                /\ Len(pending') = Len(pending)
                /\ \A r \in Records : r # cb[j].ref => pending'[r] = pending[r]
                /\ SameBesidesResult(pending'[cb[j].ref], pending[cb[j].ref])]_vars

\* two transactions store the identifier; a callback has changed one of
\* them and not the other
C19_Witness ==
    /\ out.kind = "darajaCallback" /\ out.code = 200 /\ out.via = "update"
    /\ \E r1 \in Records, r2 \in Records :
          /\ pending[r1].checkoutRequestId = JsStr("ws_CO_1")
          /\ pending[r2].checkoutRequestId = JsStr("ws_CO_1")
          /\ pending[r1].callbackAt /\ pending[r1].resultDesc = JsStr("Cancelled")
          /\ ~pending[r2].callbackAt /\ pending[r2].status = "pending"
          /\ pending[r1].requestBody # NoStkBody

\* C20: a pending transaction with status initiated has a null correlation
\* identifier and has been updated by no one; a callback's update never
\* aims at such a transaction, and an invocation's record is still
\* initiated and untouched by any callback up to its post-call update.
C20_InitiatedHasNoIdentifier ==
    /\ \A r \in Records :
          pending[r].status = "initiated" =>
             /\ pending[r].checkoutRequestId = JsNull
             /\ ~pending[r].updatedAt
             /\ ~pending[r].callbackAt
             /\ pending[r].resultCode = JsUndefined
    /\ \A j \in CbIds :
          cb[j].pc = "update" =>
             /\ cb[j].ref \in Records
             /\ pending[cb[j].ref].status # "initiated"
             /\ pending[cb[j].ref].updatedAt
    /\ \A i \in StkIds :
          stk[i].pc \in {"push", "wait", "update"} =>
             /\ stk[i].rec \in Records
             /\ pending[stk[i].rec].status = "initiated"
             /\ ~pending[stk[i].rec].callbackAt

\* a callback for X is about to update another transaction that stores X
\* while an invocation holds a response carrying X that it has not
\* persisted: its record is still initiated
C20_Witness ==
    \E i \in StkIds, j \in CbIds :
       /\ stk[i].pc = "update"
       /\ cb[j].pc = "update"
       /\ cb[j].ref # stk[i].rec
       /\ cb[j].checkoutRequestId = CarriedCheckoutId(stk[i].resp.data)
       /\ pending[stk[i].rec].status = "initiated"

====
